---- MODULE Spec2Model ----
(***************************************************************************)
(* alpa: the hotkey poller (input thread), the generation coordinator     *)
(* (main thread) and the per-token callback of src/host.rs, with the      *)
(* command model of src/command.rs and the default commands of           *)
(* src/config.rs.                                                         *)
(***************************************************************************)
EXTENDS Integers, Sequences, FiniteSets, TLC

VARIABLES
    is_generating,       \* host.rs:40  AtomicBool shared by both threads
    cancel_immediately,  \* host.rs:41  AtomicBool shared by both threads
    chan,                \* host.rs:39  flume::bounded(1): the queued specs
    ppc,                 \* input thread: "poll" | "send" | "cancel"
    new_keycodes,        \* host.rs:51  the key snapshot of the latest tick
    last_pressed,        \* host.rs:49  Option<&GenerateCommand>, <<>> is None
    cpc,                 \* main thread: "recv" | "store" | "resolve" | "infer"
                         \*   | "callback" | "returned" | "exited"
    command,             \* host.rs:87  the received spec, <<>> before the first
    prompt,              \* host.rs:90  the resolved prompt of the generation in flight
    new_prompt,          \* host.rs:129 the prompt handed to the engine
    macos,               \* host.rs:95  cfg!(target_os = "macos") of the build
    stream,              \* the responses the engine has handed to the callback
                         \*   in the current streaming call
    enigo,               \* the calls made on the injector for the generation
                         \*   in flight
    hold_sent,           \* history: commands sent during the current hold of their chord
    active,              \* history: generations received and not yet ended
    dispatched,          \* history: commands sent since is_generating was last stored false
    outcome,             \* history: how the latest generation ended
    rpc,                 \* runner loop (main.rs:99): "loop" | "panicked"
    old_keycodes,        \* main.rs:98  the hotkeys pressed on the previous tick
    pressed,             \* history: the hotkeys pressed on the latest tick
    dispatch_calls,      \* history: the dispatch calls of the latest tick, in order
    dispatch_count,      \* history: the dispatch calls made per hotkey
    app,                 \* app.rs:30  App: state and request_focus
    hotkeys_rx,          \* app.rs:41  the events sent and not yet received
    frame,               \* the window: visibility and position
    ui                   \* what the latest update read: Escape released, focus lost

shared == <<is_generating, cancel_immediately, chan>>
poller == <<ppc, new_keycodes, last_pressed, hold_sent>>
coordinator == <<cpc, command, prompt, new_prompt, stream, enigo, active, outcome>>
host == <<shared, poller, coordinator, macos, dispatched>>
lua_runner == <<rpc, old_keycodes, pressed, dispatch_calls, dispatch_count>>
popup == <<app, hotkeys_rx, frame, ui>>
elsewhere == <<lua_runner, popup>>
vars == <<host, elsewhere>>

----------------------------------------------------------------------------
(* Bounds *)

\* callback invocations the engine makes in one streaming call
MaxTokens == 2
\* the same, where the main thread runs alone
MaxTokensAlone == 3
\* characters of a generated chunk where the main thread runs alone
MaxChunkLen == 2
\* the history counter of generations in flight saturates here
MaxActive == 2

----------------------------------------------------------------------------
(* Text: a string is a sequence of one-character strings *)

NL == "\n"
CR == "\r"

\* str::strip_suffix of one character
StripSuffix(s, c) ==
    IF Len(s) > 0 /\ s[Len(s)] = c THEN SubSeq(s, 1, Len(s) - 1) ELSE s

\* str::split_inclusive('\n'): pieces that keep their terminator
RECURSIVE SplitInclusive(_, _)
SplitInclusive(s, cur) ==
    IF s = <<>> THEN (IF cur = <<>> THEN <<>> ELSE <<cur>>)
    ELSE IF Head(s) = NL
         THEN <<Append(cur, NL)>> \o SplitInclusive(Tail(s), <<>>)
         ELSE SplitInclusive(Tail(s), Append(cur, Head(s)))

\* one line of str::lines: the piece without its "\n" or "\r\n"
StripLine(piece) ==
    IF Len(piece) > 0 /\ piece[Len(piece)] = NL
    THEN StripSuffix(StripSuffix(piece, NL), CR)
    ELSE piece

\* t.lines() (host.rs:158)
Lines(t) ==
    LET pieces == SplitInclusive(t, <<>>)
    IN  [i \in 1..Len(pieces) |-> StripLine(pieces[i])]

----------------------------------------------------------------------------
(* Command model (command.rs) and configuration (config.rs) *)

Keycode == {"LControl", "Escape", "Space"}

\* the template of the default Generate command (config.rs:53), character by
\* character
Template ==
    << "S", "Y", "S", "T", "E", "M", ":", " ", "Y", "o", "u", " ", "a", "r", "e", " ",
       "a", " ", "g", "e", "n", "e", "r", "a", "l", " ", "A", "I", " ", "a", "s", "s",
       "i", "s", "t", "a", "n", "t", ".", NL, "U", "S", "E", "R", ":", " ", "{", "{",
       "P", "R", "O", "M", "P", "T", "}", "}", NL, "A", "S", "S", "I", "S", "T", "A",
       "N", "T", ":", " " >>

\* a template of a user's config.toml: "{{{PROMPT}}|{PROMPT}}|{{PROMPT}}"
TemplateTwice ==
    << "{", "{", "{", "P", "R", "O", "M", "P", "T", "}", "}", "|",
       "{", "P", "R", "O", "M", "P", "T", "}", "}", "|",
       "{", "{", "P", "R", "O", "M", "P", "T", "}", "}" >>

SingleLineUi == [kind |-> "SingleLineUi", load |-> "None"]
ClipboardLine == [kind |-> "Clipboard", load |-> "Line"]
ClipboardPlain == [kind |-> "Clipboard", load |-> "None"]
Autocomplete == [kind |-> "Autocomplete", template |-> <<>>]
Prompt(template) == [kind |-> "Prompt", template |-> template]

GenerateCommand(input, mode, newline) ==
    [input |-> input, mode |-> mode, newline |-> newline]

Generate(g) == [kind |-> "Generate", gen |-> <<g>>]
Cancel == [kind |-> "Cancel", gen |-> <<>>]

\* Command::new
NewCommand(keys, ty) == [keys |-> keys, ty |-> ty]

\* config.commands: the two default commands (config.rs:46-61), then two
\* commands as a user's config.toml adds them
commands ==
    << NewCommand({"LControl", "Escape"},
                  Generate(GenerateCommand(SingleLineUi, Prompt(Template), "Enter"))),
       NewCommand({"Escape"}, Cancel),
       NewCommand({"LControl", "Space"},
                  Generate(GenerateCommand(ClipboardPlain, Autocomplete, "Stop"))),
       NewCommand({"Space"},
                  Generate(GenerateCommand(ClipboardLine, Prompt(TemplateTwice),
                                           "ShiftEnter"))) >>

\* a match that wants exactly the chord's keys pressed
is_pressed_exactly(cmd, keycodes) == cmd.keys = keycodes

\* Command::is_pressed: keycodes.is_superset(&self.keys)
is_pressed(cmd, keycodes) == cmd.keys \subseteq keycodes

\* a sort key without the negation: fewest keys first
SortKeyAscending(i) == Cardinality(commands[i].keys)

\* the key of sort_by_key: -(cmd.keys.len() as isize)
SortKey(i) == 0 - Cardinality(commands[i].keys)

\* slice::sort_by_key is a stable sort: equal keys keep their order
RECURSIVE InsertSorted(_, _)
InsertSorted(s, i) ==
    IF s = <<>> THEN <<i>>
    ELSE IF SortKey(Head(s)) <= SortKey(i)
         THEN <<Head(s)>> \o InsertSorted(Tail(s), i)
         ELSE <<i>> \o s

RECURSIVE SortByKey(_)
SortByKey(s) ==
    IF s = <<>> THEN <<>>
    ELSE InsertSorted(SortByKey(SubSeq(s, 1, Len(s) - 1)), s[Len(s)])

\* the indices of the commands collected by the loop of host.rs:59-64
Matching(keycodes) ==
    SelectSeq([i \in 1..Len(commands) |-> i],
              LAMBDA i : is_pressed(commands[i], keycodes))

\* commands_to_process after the sort, as indices into commands
commands_to_process(keycodes) == SortByKey(Matching(keycodes))

\* commands_to_process.first(): <<>> is None
FirstCommand(keycodes) ==
    IF commands_to_process(keycodes) = <<>> THEN <<>>
    ELSE <<Head(commands_to_process(keycodes))>>

----------------------------------------------------------------------------
(* The per-token callback (host.rs:147-184) *)

key_sequence(text) == [op |-> "key_sequence", arg |-> text]
key_click(key) == [op |-> "key_click", arg |-> <<key>>]
key_down(key) == [op |-> "key_down", arg |-> <<key>>]
key_up(key) == [op |-> "key_up", arg |-> <<key>>]

InferredToken(t) == [kind |-> "InferredToken", text |-> t]
EotToken == [kind |-> "EotToken", text |-> <<>>]

\* a ShiftEnter arm that does not release Shift
NewlineCallsShiftHeld(newline) ==
    CASE newline = "Stop" -> <<>>
      [] newline = "Enter" -> <<key_click("Return")>>
      [] newline = "ShiftEnter" -> <<key_down("Shift"), key_click("Return")>>

\* the match on command.newline of host.rs:160-172: the injector calls it makes
NewlineCalls(newline) ==
    CASE newline = "Stop" -> <<>>
      [] newline = "Enter" -> <<key_click("Return")>>
      [] newline = "ShiftEnter" ->
            <<key_down("Shift"), key_click("Return"), key_up("Shift")>>

\* whether the newline arm runs for a line (host.rs:159)
NewlineArm(first, line) == ~first \/ line = <<>>

\* the loop over t.lines() of host.rs:158-181, from a given value of first;
\* calls are the injector calls made so far in this invocation
RECURSIVE LineLoop(_, _, _, _)
LineLoop(lines, first, newline, calls) ==
    IF lines = <<>> THEN [calls |-> calls, feedback |-> "Continue"]
    ELSE LET line == Head(lines)
             arm == NewlineArm(first, line)
             feedback == IF arm /\ newline = "Stop" THEN "Halt" ELSE "Continue"
             after == calls \o (IF arm THEN NewlineCalls(newline) ELSE <<>>)
                            \o <<key_sequence(line)>>
         IN  IF feedback = "Halt"
             THEN [calls |-> after, feedback |-> "Halt"]
             ELSE LineLoop(Tail(lines), FALSE, newline, after)

\* a callback whose first flag lives as long as the streaming call
CallbackBodyFirstPerCall(response, newline) ==
    IF response.kind = "InferredToken"
    THEN LineLoop(Lines(response.text),
                  \A i \in 1..(Len(stream) - 1) :
                      stream[i].kind # "InferredToken" \/ Lines(stream[i].text) = <<>>,
                  newline, <<>>)
    ELSE [calls |-> <<>>, feedback |-> "Continue"]

\* the callback body after the cancel check: first is a local of the
\* invocation, true at its start (host.rs:157)
CallbackBody(response, newline) ==
    IF response.kind = "InferredToken"
    THEN LineLoop(Lines(response.text), TRUE, newline, <<>>)
    ELSE [calls |-> <<>>, feedback |-> "Continue"]

----------------------------------------------------------------------------
(* The input thread (host.rs:43-85) *)

\* flume::bounded(1) (host.rs:39)
ChanCap == 1

\* the process is gone once main has returned or panicked
Alive == cpc # "exited"

\* the selected command of the latest tick, as an index; 0 when there is none
Selected == IF FirstCommand(new_keycodes) = <<>> THEN 0
            ELSE Head(FirstCommand(new_keycodes))

\* the `generate` of the Generate arm (host.rs:69), as an Option
SelectedGenerate == IF Selected = 0 THEN <<>> ELSE commands[Selected].ty.gen

\* a reset of last_pressed on every tick
RearmedAlways == <<>>

\* host.rs:54-56: last_pressed after the load of is_generating
Rearmed == IF ~is_generating THEN <<>> ELSE last_pressed

\* a tick that cancels whenever some matching command is a Cancel
TickTargetAnyCancel(keycodes, lp) ==
    LET first == FirstCommand(keycodes)
        matching == Matching(keycodes)
    IN  IF first = <<>> THEN "poll"
        ELSE IF \E n \in 1..Len(matching) : commands[matching[n]].ty.kind = "Cancel"
             THEN "cancel"
        ELSE IF lp # commands[Head(first)].ty.gen THEN "send"
        ELSE "poll"

\* where one tick goes after the selection (host.rs:67-80)
TickTarget(keycodes, lp) ==
    LET first == FirstCommand(keycodes)
    IN  IF first = <<>> THEN "poll"
        ELSE IF commands[Head(first)].ty.kind = "Cancel" THEN "cancel"
        ELSE IF lp # commands[Head(first)].ty.gen THEN "send"
        ELSE "poll"

\* a tick that is also taken while the thread is inside send
PollerTickWhileBlocked ==
    /\ Alive
    /\ ppc \in {"poll", "send"}
    /\ \E keycodes \in SUBSET Keycode :
          /\ new_keycodes' = keycodes
          /\ last_pressed' = Rearmed
          /\ ppc' = TickTarget(keycodes, Rearmed)
          /\ hold_sent' = {i \in hold_sent : is_pressed(commands[i], keycodes)}
    /\ UNCHANGED <<shared, coordinator, macos, dispatched, elsewhere>>

\* one tick up to its first effect on shared state (host.rs:51-70); a tick that
\* selects nothing, or a debounced Generate, ends in the sleep of host.rs:82
PollerTick ==
    /\ Alive
    /\ ppc = "poll"
    /\ \E keycodes \in SUBSET Keycode :
          /\ new_keycodes' = keycodes
          /\ last_pressed' = Rearmed
          /\ ppc' = TickTarget(keycodes, Rearmed)
          /\ hold_sent' = {i \in hold_sent : is_pressed(commands[i], keycodes)}
    /\ UNCHANGED <<shared, coordinator, macos, dispatched, elsewhere>>

\* a send that never waits for the slot
CanSendUnbounded == TRUE

\* the send blocks while the slot is taken
CanSend == Len(chan) < ChanCap

\* a send that also withdraws a cancellation request
PollerSendClearsCancel ==
    /\ Alive
    /\ ppc = "send"
    /\ CanSend
    /\ chan' = chan \o SelectedGenerate
    /\ last_pressed' = SelectedGenerate
    /\ hold_sent' = hold_sent \cup {Selected}
    /\ dispatched' = dispatched \cup {Selected}
    /\ cancel_immediately' = FALSE
    /\ ppc' = "poll"
    /\ UNCHANGED <<is_generating, new_keycodes, coordinator, macos, elsewhere>>

\* command_tx.send(generate) and last_pressed = Some(generate) (host.rs:71-72)
PollerSend ==
    /\ Alive
    /\ ppc = "send"
    /\ CanSend
    /\ chan' = chan \o SelectedGenerate
    /\ last_pressed' = SelectedGenerate
    /\ hold_sent' = hold_sent \cup {Selected}
    /\ dispatched' = dispatched \cup {Selected}
    /\ ppc' = "poll"
    /\ UNCHANGED <<is_generating, cancel_immediately, new_keycodes, coordinator, macos, elsewhere>>

\* a Cancel that is handed over on the channel like a Generate
PollerCancelViaChannel ==
    /\ Alive
    /\ ppc = "cancel"
    /\ CanSend
    /\ cancel_immediately' = TRUE
    /\ ppc' = "poll"
    /\ UNCHANGED <<is_generating, chan, new_keycodes, last_pressed, hold_sent,
                   coordinator, macos, dispatched, elsewhere>>

\* cancel_immediately.store(true) (host.rs:77)
PollerCancel ==
    /\ Alive
    /\ ppc = "cancel"
    /\ cancel_immediately' = TRUE
    /\ ppc' = "poll"
    /\ UNCHANGED <<is_generating, chan, new_keycodes, last_pressed, hold_sent,
                   coordinator, macos, dispatched, elsewhere>>

----------------------------------------------------------------------------
(* The main thread (host.rs:87-188) *)

\* what prompt resolution can return: an empty or a non-empty text
ResolvedPrompts == {<<>>, <<"X">>}

\* the select-line-and-copy calls of host.rs:98-113
SelectLineCalls ==
    << key_down("Meta"), key_down("LShift"), key_click("LeftArrow"),
       key_up("LShift"), key_up("Meta"),
       key_down("Meta"), key_sequence(<<"C">>), key_up("Meta"),
       key_click("RightArrow") >>

\* the response the callback is working on, and the invocations so far
tok == stream[Len(stream)]
ncalls == Len(stream)

Started(n) == IF n < MaxActive THEN n + 1 ELSE n
Ended(n) == IF n > 0 THEN n - 1 ELSE n

\* a receive that does not wait for the generation in flight to end
CanRecvWhileRunning == cpc # "exited" /\ chan # <<>>

\* a receive that waits until no generation is flagged as running
CanRecvWhenIdle == cpc = "recv" /\ chan # <<>> /\ ~is_generating

\* command_rx.recv() returns only to the loop head of host.rs:87
CanRecv == cpc = "recv" /\ chan # <<>>

\* while let Ok(command) = command_rx.recv() (host.rs:87)
CoordRecv ==
    /\ CanRecv
    /\ command' = <<Head(chan)>>
    /\ chan' = Tail(chan)
    /\ cpc' = "store"
    /\ active' = Started(active)
    /\ outcome' = "none"
    /\ UNCHANGED <<is_generating, cancel_immediately, poller, prompt, new_prompt,
                   stream, enigo, macos, dispatched, elsewhere>>

\* is_generating.store(true) (host.rs:88)
CoordStore ==
    /\ cpc = "store"
    /\ is_generating' = TRUE
    /\ cpc' = "resolve"
    /\ UNCHANGED <<cancel_immediately, chan, poller, command, prompt, new_prompt,
                   stream, enigo, active, outcome, macos, dispatched, elsewhere>>

NeedsSelectLine == command[1].input.kind = "Clipboard" /\ command[1].input.load = "Line"

\* what the `continue` of host.rs:126 does to is_generating: nothing
EmptyPromptReset == is_generating' = is_generating

\* the literal the template is searched for (host.rs:131)
Placeholder == <<"{", "{", "P", "R", "O", "M", "P", "T", "}", "}">>

\* a replace that stops after the first match (str::replacen(.., 1))
RECURSIVE ReplaceFirst(_, _, _)
ReplaceFirst(s, from, to) ==
    IF Len(s) < Len(from) THEN s
    ELSE IF SubSeq(s, 1, Len(from)) = from
         THEN to \o SubSeq(s, Len(from) + 1, Len(s))
         ELSE <<Head(s)>> \o ReplaceFirst(Tail(s), from, to)

\* str::replace: every non-overlapping match of `from`, left to right
RECURSIVE Replace(_, _, _)
Replace(s, from, to) ==
    IF Len(s) < Len(from) THEN s
    ELSE IF SubSeq(s, 1, Len(from)) = from
         THEN to \o Replace(SubSeq(s, Len(from) + 1, Len(s)), from, to)
         ELSE <<Head(s)>> \o Replace(Tail(s), from, to)

\* the match on command.mode of host.rs:129-132
NewPrompt(mode, text) ==
    IF mode.kind = "Autocomplete" THEN text
    ELSE Replace(mode.template, Placeholder, text)

\* a resolution that hands an empty prompt to the engine like any other
CoordResolveNoEmptyCheck(prompts) ==
    /\ cpc = "resolve"
    /\ NeedsSelectLine => macos
    /\ \E text \in prompts :
          /\ cpc' = "infer"
          /\ prompt' = text
          /\ new_prompt' = NewPrompt(command[1].mode, text)
          /\ enigo' = IF NeedsSelectLine THEN SelectLineCalls ELSE <<>>
          /\ UNCHANGED <<is_generating, active, outcome>>
    /\ UNCHANGED <<cancel_immediately, chan, poller, command, stream, macos, dispatched, elsewhere>>

\* host.rs:90-132: the prompt is resolved to one of `prompts`; an empty one
\* continues the loop, any other is made into the prompt for the engine
CoordResolve(prompts) ==
    /\ cpc = "resolve"
    /\ NeedsSelectLine => macos
    /\ \E text \in prompts :
          IF text = <<>>
          THEN /\ cpc' = "recv"
               /\ EmptyPromptReset
               /\ enigo' = IF NeedsSelectLine THEN SelectLineCalls ELSE <<>>
               /\ active' = Ended(active)
               /\ outcome' = "empty"
               /\ UNCHANGED <<prompt, new_prompt>>
          ELSE /\ cpc' = "infer"
               /\ prompt' = text
               /\ new_prompt' = NewPrompt(command[1].mode, text)
               /\ enigo' = IF NeedsSelectLine THEN SelectLineCalls ELSE <<>>
               /\ UNCHANGED <<is_generating, active, outcome>>
    /\ UNCHANGED <<cancel_immediately, chan, poller, command, stream, macos, dispatched, elsewhere>>

\* host.rs:91, 121: the `?` on a failed prompt surface or clipboard read returns
\* from main; host.rs:115: unimplemented!() panics on the main thread
CoordResolveFail ==
    /\ cpc = "resolve"
    /\ cpc' = "exited"
    /\ active' = Ended(active)
    /\ outcome' = "error"
    /\ UNCHANGED <<shared, poller, command, prompt, new_prompt, stream, enigo, macos, dispatched, elsewhere>>

\* a callback without the early return of host.rs:150
EngineTokenNoHalt(responses, limit) ==
    /\ cpc = "infer"
    /\ ncalls < limit
    /\ \E response \in responses : stream' = Append(stream, response)
    /\ cancel_immediately' = FALSE
    /\ cpc' = "callback"
    /\ UNCHANGED <<is_generating, chan, poller, command, prompt, new_prompt, enigo,
                   active, outcome, macos, dispatched, elsewhere>>

\* the engine calls the callback with a response (host.rs:147-151): the cancel
\* check either halts the call or lets the body run; the engine hands over one
\* of `responses`, at most `limit` of them in one call
EngineToken(responses, limit) ==
    /\ cpc = "infer"
    /\ ncalls < limit
    /\ \E response \in responses : stream' = Append(stream, response)
    /\ IF cancel_immediately
       THEN /\ cancel_immediately' = FALSE
            /\ cpc' = "returned"
            /\ outcome' = "cancel"
       ELSE /\ cpc' = "callback"
            /\ UNCHANGED <<cancel_immediately, outcome>>
    /\ UNCHANGED <<is_generating, chan, poller, command, prompt, new_prompt, enigo,
                   active, macos, dispatched, elsewhere>>

\* a callback body that looks at cancel_immediately again after its first line
CallbackLinesInterruptible ==
    /\ cpc = "callback"
    /\ LET r == CallbackBody(tok, command[1].newline)
           cut == cancel_immediately /\ Len(r.calls) > 1
       IN  /\ enigo' = enigo \o (IF cut THEN <<Head(r.calls)>> ELSE r.calls)
           /\ IF cut
              THEN cpc' = "returned" /\ outcome' = "cancel"
              ELSE IF r.feedback = "Halt"
                   THEN cpc' = "returned" /\ outcome' = "stop"
                   ELSE cpc' = "infer" /\ UNCHANGED outcome
    /\ UNCHANGED <<shared, poller, command, prompt, new_prompt, stream, active, macos, dispatched, elsewhere>>

\* host.rs:153-183: the body of the callback on the response it was handed
CallbackLines ==
    /\ cpc = "callback"
    /\ LET r == CallbackBody(tok, command[1].newline)
       IN  /\ enigo' = enigo \o r.calls
           /\ IF r.feedback = "Halt"
              THEN cpc' = "returned" /\ outcome' = "stop"
              ELSE cpc' = "infer" /\ UNCHANGED outcome
    /\ UNCHANGED <<shared, poller, command, prompt, new_prompt, stream, active, macos, dispatched, elsewhere>>

\* the engine ends the stream and infer returns Ok
EngineEnd ==
    /\ cpc = "infer"
    /\ cpc' = "returned"
    /\ outcome' = "normal"
    /\ UNCHANGED <<shared, poller, command, prompt, new_prompt, stream, enigo, active,
                   macos, dispatched, elsewhere>>

\* infer returns Err and the `?` of host.rs:185 returns from main
EngineError ==
    /\ cpc = "infer"
    /\ cpc' = "exited"
    /\ active' = Ended(active)
    /\ outcome' = "error"
    /\ UNCHANGED <<shared, poller, command, prompt, new_prompt, stream, enigo, macos, dispatched, elsewhere>>

\* a loop end without the store of host.rs:187
CoordFinishNoStore ==
    /\ cpc = "returned"
    /\ cpc' = "recv"
    /\ prompt' = <<>>
    /\ new_prompt' = <<>>
    /\ stream' = <<>>
    /\ enigo' = <<>>
    /\ active' = Ended(active)
    /\ UNCHANGED <<shared, poller, command, outcome, macos, dispatched, elsewhere>>

\* an end of generation that also clears a pending cancel
CoordFinishResetCancel ==
    /\ cpc = "returned"
    /\ is_generating' = FALSE
    /\ cancel_immediately' = FALSE
    /\ cpc' = "recv"
    /\ prompt' = <<>>
    /\ new_prompt' = <<>>
    /\ stream' = <<>>
    /\ enigo' = <<>>
    /\ active' = Ended(active)
    /\ dispatched' = {}
    /\ UNCHANGED <<chan, poller, command, outcome, macos, elsewhere>>

\* is_generating.store(false) and the loop back to recv (host.rs:187-188)
CoordFinish ==
    /\ cpc = "returned"
    /\ is_generating' = FALSE
    /\ cpc' = "recv"
    /\ prompt' = <<>>
    /\ new_prompt' = <<>>
    /\ stream' = <<>>
    /\ enigo' = <<>>
    /\ active' = Ended(active)
    /\ dispatched' = {}
    /\ UNCHANGED <<cancel_immediately, chan, poller, command, outcome, macos, elsewhere>>

----------------------------------------------------------------------------
(* The Lua runner loop (src/main.rs) *)

MaxDispatch == 2

\* the key paths of config.hotkeys that end in a function
hotkeys_to_listen_for == {<<"LControl", "Escape">>, <<"Escape">>, <<"Space">>}

Range(f) == {f[i] : i \in DOMAIN f}

\* the keys read from the device hold every key of the hotkey
is_hotkey_pressed(device_keys, hotkey_str) == Range(hotkey_str) \subseteq device_keys

\* the orders in which a hash set may be iterated
Orders(S) ==
    {o \in [1..Cardinality(S) -> S] : \A i, j \in DOMAIN o : i # j => o[i] # o[j]}

RunnerInit ==
    /\ rpc = "loop"
    /\ old_keycodes = {}
    /\ pressed = {}
    /\ dispatch_calls = <<>>
    /\ dispatch_count = [h \in hotkeys_to_listen_for |-> 0]

\* every pressed hotkey, held or not
ToDispatchAll(new, old) == new

\* new_keycodes.difference(&old_keycodes)

ToDispatch(new, old) == new \ old

\* one iteration of the loop: every registered hotkey is tested against its
\* own read of the device, the hotkeys that were not pressed on the previous
\* tick are dispatched in the order of the hash set, and the pressed hotkeys
\* are remembered; a dispatch call that fails panics at the unwrap and ends
\* the runner before the rest of the iteration
RunnerTick ==
    /\ rpc = "loop"
    /\ \E device_keys \in [hotkeys_to_listen_for -> SUBSET Keycode] :
          LET runner_new_keycodes ==
                  {h \in hotkeys_to_listen_for : is_hotkey_pressed(device_keys[h], h)}
          IN  \E order \in Orders(ToDispatch(runner_new_keycodes, old_keycodes)) :
              \E made \in 0..Len(order), failed \in BOOLEAN :
                  /\ failed => made >= 1
                  /\ ~failed => made = Len(order)
                  /\ \A i \in 1..made : dispatch_count[order[i]] < MaxDispatch
                  /\ pressed' = runner_new_keycodes
                  /\ dispatch_calls' = SubSeq(order, 1, made)
                  /\ dispatch_count' =
                        [h \in hotkeys_to_listen_for |->
                            dispatch_count[h] +
                            Cardinality({i \in 1..made : order[i] = h})]
                  /\ IF failed
                        THEN /\ rpc' = "panicked"
                             /\ UNCHANGED old_keycodes
                        ELSE /\ rpc' = "loop"
                             /\ old_keycodes' = runner_new_keycodes
    /\ UNCHANGED <<host, popup>>

NextRunner == RunnerTick

----------------------------------------------------------------------------
(* The popup App (src/app.rs) *)

MaxEvents == 2
MaxInput == 2

\* the pointer positions a hotkey event may carry
Pos2 == {1, 2}

Open(pos) == [pos |-> pos]

First == [kind |-> "First"]
Unopened == [kind |-> "Unopened"]
Opened(pos, input) == [kind |-> "Opened", pos |-> pos, input |-> input]

\* a popup that keeps the text of the one it replaces
ReopenedKeepInput(state, pos) ==
    Opened(pos, IF state.kind = "Opened" THEN state.input ELSE <<>>)

\* Opened { pos, ..Opened::default() }
Reopened(state, pos) == Opened(pos, <<>>)

AppInit ==
    /\ app = [state |-> First, request_focus |-> FALSE]
    /\ hotkeys_rx = <<>>
    /\ frame = [visible |-> "created", pos |-> "created"]
    /\ ui = [key_released_escape |-> FALSE, lost_focus |-> FALSE]

\* the hotkey thread finds the hotkey pressed and sends the pointer position
HotkeyThreadSend ==
    /\ Len(hotkeys_rx) < MaxEvents
    /\ \E pos \in Pos2 : hotkeys_rx' = Append(hotkeys_rx, Open(pos))
    /\ UNCHANGED <<host, lua_runner, app, frame, ui>>

\* set_state on the pair of the App and its window
set_state(sf, state) ==
    LET changed == sf.app.state # state
    IN  [app |->
            [state |-> state,
             request_focus |->
                IF changed /\ state.kind = "Opened"
                    THEN TRUE ELSE sf.app.request_focus],
         frame |->
            IF ~changed \/ state.kind = "First" THEN sf.frame
            ELSE IF state.kind = "Unopened"
                THEN [sf.frame EXCEPT !.visible = FALSE]
            ELSE [visible |-> TRUE, pos |-> state.pos]]

\* the loop over the received events
RECURSIVE HandleEvents(_, _)
HandleEvents(sf, events) ==
    IF events = <<>> THEN sf
    ELSE HandleEvents(set_state(sf, Reopened(sf.app.state, Head(events).pos)),
                      Tail(events))

\* what the text field may hold after a frame
Edits(input) ==
    {input}
        \cup (IF Len(input) < MaxInput THEN {Append(input, "x")} ELSE {})
        \cup (IF input # <<>> THEN {SubSeq(input, 1, Len(input) - 1)} ELSE {})

\* draw_opened_central: the state it returns and the request_focus it leaves
draw_opened_central(sf, input, lost_focus) ==
    [state |-> IF lost_focus THEN Unopened
               ELSE Opened(sf.app.state.pos, input),
     request_focus |-> FALSE]

\* get_new_state, with process_opened
get_new_state(sf, key_released_escape, lost_focus, input) ==
    IF sf.app.state.kind \in {"First", "Unopened"}
        THEN [state |-> Unopened, request_focus |-> sf.app.request_focus]
    ELSE IF key_released_escape
        THEN [state |-> Unopened, request_focus |-> sf.app.request_focus]
    ELSE draw_opened_central(sf, input, lost_focus)

\* one call of update: the events are received and handled, the new state is
\* computed from the frame's input and set
Update ==
    \E key_released_escape \in BOOLEAN, lost_focus \in BOOLEAN :
        LET sf == HandleEvents([app |-> app, frame |-> frame], hotkeys_rx)
            inputs == IF sf.app.state.kind = "Opened"
                        THEN Edits(sf.app.state.input) ELSE {<<>>}
        IN  \E input \in inputs :
              LET new == get_new_state(sf, key_released_escape, lost_focus, input)
                  done == set_state([sf EXCEPT !.app.request_focus = new.request_focus],
                                    new.state)
              IN  /\ app' = done.app
                  /\ frame' = done.frame
                  /\ hotkeys_rx' = <<>>
                  /\ ui' = [key_released_escape |-> key_released_escape,
                            lost_focus |-> lost_focus]
                  /\ UNCHANGED <<host, lua_runner>>

NextApp ==
    \/ HotkeyThreadSend
    \/ Update

----------------------------------------------------------------------------
(* Specifications *)

\* the chunks the engine generates in the concurrent specification: text
\* without a newline, and two lines in one chunk
Chunks == {<<"a">>, <<"a", NL, "a">>}

Responses == {InferredToken(t) : t \in Chunks} \cup {EotToken}

Init ==
    /\ is_generating = FALSE
    /\ cancel_immediately = FALSE
    /\ chan = <<>>
    /\ ppc = "poll"
    /\ new_keycodes = {}
    /\ last_pressed = <<>>
    /\ cpc = "recv"
    /\ command = <<>>
    /\ prompt = <<>>
    /\ new_prompt = <<>>
    /\ dispatched = {}
    /\ macos \in BOOLEAN
    /\ stream = <<>>
    /\ enigo = <<>>
    /\ hold_sent = {}
    /\ active = 0
    /\ outcome = "none"
    /\ RunnerInit
    /\ AppInit

Next ==
    \/ PollerTick
    \/ PollerSend
    \/ PollerCancel
    \/ CoordRecv
    \/ CoordStore
    \/ CoordResolve(ResolvedPrompts)
    \/ CoordResolveFail
    \/ EngineToken(Responses, MaxTokens)
    \/ CallbackLines
    \/ EngineEnd
    \/ EngineError
    \/ CoordFinish

Spec == Init /\ [][Next]_vars

----------------------------------------------------------------------------
(* The main thread alone, from the moment a spec has been sent to it: every
   configured Generate command, every stream of short chunks, and the two
   streams of the translator scenarios *)

RECURSIVE SeqsUpTo(_, _)
SeqsUpTo(alphabet, n) ==
    IF n = 0 THEN {<<>>}
    ELSE LET shorter == SeqsUpTo(alphabet, n - 1)
         IN  shorter \cup {Append(s, c) : s \in shorter, c \in alphabet}

ShortChunks == SeqsUpTo({"a", NL}, MaxChunkLen)

\* ["abc\n", "def"]
StopScenario == << <<"a", "b", "c", NL>>, <<"d", "e", "f">> >>

\* ["Hello", " world\n", "second line"]
EnterScenario ==
    << <<"H", "e", "l", "l", "o">>,
       <<" ", "w", "o", "r", "l", "d", NL>>,
       <<"s", "e", "c", "o", "n", "d", " ", "l", "i", "n", "e">> >>

Scenarios == {StopScenario, EnterScenario}

\* the texts of the inferred tokens handed over so far
Texts(responses) == [i \in 1..Len(responses) |-> responses[i].text]

\* the chunks that continue a scenario the stream has followed so far
ScenarioNext ==
    {sc[Len(stream) + 1] : sc \in {x \in Scenarios :
        /\ Len(stream) < Len(x)
        /\ \A i \in 1..Len(stream) : stream[i] = InferredToken(x[i])}}

\* resolved prompts where the main thread runs alone: also a text that holds
\* the placeholder itself
ResolvedPromptsAlone == ResolvedPrompts \cup {Placeholder}

ResponsesAlone ==
    {InferredToken(t) : t \in ShortChunks \cup ScenarioNext} \cup {EotToken}

InitAlone ==
    /\ is_generating = FALSE
    /\ cancel_immediately = FALSE
    /\ ppc = "poll"
    /\ cpc = "recv"
    /\ command = <<>>
    /\ prompt = <<>>
    /\ new_prompt = <<>>
    /\ macos \in BOOLEAN
    /\ stream = <<>>
    /\ enigo = <<>>
    /\ active = 0
    /\ outcome = "none"
    /\ RunnerInit
    /\ AppInit
    /\ \E i \in {j \in 1..Len(commands) : commands[j].ty.kind = "Generate"} :
          /\ new_keycodes = commands[i].keys
          /\ last_pressed = commands[i].ty.gen
          /\ chan = commands[i].ty.gen
          /\ hold_sent = {i}
          /\ dispatched = {i}

NextAlone ==
    \/ CoordRecv
    \/ CoordStore
    \/ CoordResolve(ResolvedPromptsAlone)
    \/ CoordResolveFail
    \/ EngineToken(ResponsesAlone, MaxTokensAlone)
    \/ CallbackLines
    \/ EngineEnd
    \/ EngineError
    \/ CoordFinish

SpecAlone == InitAlone /\ [][NextAlone]_vars

\* the runner loop alone
SpecRunner == Init /\ [][NextRunner]_vars

\* the popup alone
SpecApp == Init /\ [][NextApp]_vars

----------------------------------------------------------------------------
(* Dispatch and generation lifecycle *)

\* the indices of the Generate commands
GenerateIdx == {i \in 1..Len(commands) : commands[i].ty.kind = "Generate"}

\* the streaming call of the latest generation returned Ok (it ran to the end,
\* or the callback halted it)
StreamReturned == outcome \in {"normal", "cancel", "stop"}

\* C1: after a generation is aborted on an empty prompt, is_generating is false
\* while the coordinator waits for the next spec
C1_EmptyPromptResets ==
    (cpc = "recv" /\ outcome = "empty") => ~is_generating

\* C2: after the streaming call returned normally or was halted by the callback,
\* is_generating is false while the coordinator waits for the next spec
C2_ReturnResets ==
    (cpc = "recv" /\ StreamReturned) => ~is_generating

C2_Witness ==
    cpc = "recv" /\ outcome = "cancel" /\ ~is_generating /\ chan # <<>>

\* C3: a command is sent at most once while its chord stays held over the ticks
C3_OneRequestPerHold ==
    [][(ppc = "send" /\ ppc' = "poll") => Selected \notin hold_sent]_vars

\* C4: with the coordinator idle after an ended generation and nothing queued,
\* a tick that sees a Generate chord pressed that the tick before saw released
\* dispatches its spec
C4_RepressDispatches ==
    [][\A i \in GenerateIdx :
          ( /\ cpc = "recv" /\ chan = <<>>
            /\ outcome \in {"normal", "cancel", "stop", "empty"}
            /\ ppc = "poll"
            /\ ~is_pressed(commands[i], new_keycodes)
            /\ FirstCommand(new_keycodes') = <<i>> )
          => ppc' = "send"]_vars

\* C5: at most one generation is received and not yet ended
C5_OneInFlight == active <= 1

C5_Witness ==
    cpc = "infer" /\ active = 1 /\ Len(chan) = 1 /\ ppc = "send"

\* C6: the channel holds at most one spec sent and not yet received
C6_AtMostOnePending == Len(chan) <= 1

C6_Witness ==
    Len(chan) = 1 /\ ppc = "send" /\ cpc = "callback"

\* C7: a callback invocation that finds cancel_immediately set makes no injector
\* call and halts the streaming call
C7_CancelHaltsSilently ==
    [][(Len(stream') = Len(stream) + 1 /\ cancel_immediately)
          => (enigo' = enigo /\ cpc' = "returned" /\ outcome' = "cancel")]_vars

C7_Witness ==
    /\ cpc = "returned" /\ outcome = "cancel"
    /\ Len(stream) = 2
    /\ enigo = CallbackBody(stream[1], command[1].newline).calls
    /\ enigo # <<>>

\* C8: when a generation halted by cancellation ends, cancel_immediately is false
C8_CancelConsumed ==
    [][(cpc = "returned" /\ outcome = "cancel" /\ cpc' = "recv")
          => ~cancel_immediately']_vars

----------------------------------------------------------------------------
(* Token translation *)

RECURSIVE Concat(_)
Concat(texts) == IF texts = <<>> THEN <<>> ELSE Head(texts) \o Concat(Tail(texts))

\* the text generated so far in the current streaming call
Generated == Concat(Texts(stream))

\* the injector calls made by the callback: those after prompt resolution
CallbackCalls ==
    IF command # <<>> /\ NeedsSelectLine /\ Len(enigo) >= Len(SelectLineCalls)
    THEN SubSeq(enigo, Len(SelectLineCalls) + 1, Len(enigo))
    ELSE enigo

\* the text typed by a sequence of injector calls
RECURSIVE TypedText(_)
TypedText(calls) ==
    IF calls = <<>> THEN <<>>
    ELSE (IF Head(calls).op = "key_sequence" THEN Head(calls).arg ELSE <<>>)
         \o TypedText(Tail(calls))

\* the part of a text before its first newline
RECURSIVE BeforeNewline(_)
BeforeNewline(text) ==
    IF text = <<>> \/ Head(text) = NL THEN <<>>
    ELSE <<Head(text)>> \o BeforeNewline(Tail(text))

IsPrefix(s, t) == Len(s) <= Len(t) /\ SubSeq(t, 1, Len(s)) = s

Newline == IF command = <<>> THEN "none" ELSE command[1].newline

\* the callback has returned from every response handed to it
CallbacksDone == cpc \in {"infer", "returned"}

\* C9: under Stop, after ["abc\n", ...] exactly "abc" is typed and the call is
\* halted, and whatever the stream, nothing after its first newline is typed
C9_StopTypesNothingAfterNewline ==
    Newline = "Stop" =>
        /\ ( /\ CallbacksDone
             /\ Len(stream) >= 1
             /\ stream[1] = InferredToken(StopScenario[1]) )
           => ( /\ cpc = "returned" /\ outcome = "stop"
                /\ Len(stream) = 1
                /\ TypedText(CallbackCalls) = <<"a", "b", "c">> )
        /\ IsPrefix(TypedText(CallbackCalls), BeforeNewline(Generated))

\* C10: under Enter, the stream ["Hello", " world\n", "second line"] is injected
\* as type "Hello", type " world", press Enter, type "second line"
C10_EnterScenario ==
    (Newline = "Enter" /\ CallbacksDone /\ Texts(stream) = EnterScenario)
        => CallbackCalls = << key_sequence(EnterScenario[1]),
                              key_sequence(<<" ", "w", "o", "r", "l", "d">>),
                              key_click("Return"),
                              key_sequence(EnterScenario[3]) >>

----------------------------------------------------------------------------
(* Errors of a generation attempt *)

\* C11: after an error of a generation attempt (prompt resolution failed or
\* panicked, engine error) the coordinator is back at its receive and the
\* process, with its input thread, is alive
C11_ErrorsKeepRunning ==
    outcome = "error" => (cpc = "recv" /\ Alive)

\* C12: the step on which the streaming call ends with an engine error leaves
\* is_generating false
C12_EngineErrorResets ==
    [][(cpc = "infer" /\ outcome' = "error") => ~is_generating']_vars

----------------------------------------------------------------------------
(* Chord matching and selection *)

\* C13: for every chord and the snapshot of the latest tick, is_pressed holds
\* iff every key of the chord is in the snapshot, and pressing further keys
\* that are not in the chord does not change it
C13_PressedIffSuperset ==
    \A keys \in SUBSET Keycode :
        LET cmd == NewCommand(keys, Cancel)
        IN  /\ is_pressed(cmd, new_keycodes) <=> (\A k \in keys : k \in new_keycodes)
            /\ \A extra \in SUBSET (Keycode \ keys) :
                  is_pressed(cmd, new_keycodes \cup extra)
                      <=> is_pressed(cmd, new_keycodes)

\* a tick has matched the chord of the default Generate command with a further
\* key held
C13_Witness ==
    /\ new_keycodes = Keycode
    /\ ppc = "send"
    /\ 1 \in {Matching(new_keycodes)[n] : n \in 1..Len(Matching(new_keycodes))}

\* the commands whose chord is inside a snapshot
MatchingSet(keycodes) == {i \in 1..Len(commands) : commands[i].keys \subseteq keycodes}

\* i has the most keys among the commands of m, and is the earliest of those
MostSpecific(i, m) ==
    /\ i \in m
    /\ \A j \in m :
          \/ Cardinality(commands[j].keys) < Cardinality(commands[i].keys)
          \/ Cardinality(commands[j].keys) = Cardinality(commands[i].keys) /\ i <= j

\* C14: the command a tick acts on has the most keys among the matching
\* commands and is the earliest configured of those; a tick that matches no
\* command dispatches nothing
C14_MostSpecificFirst ==
    LET m == MatchingSet(new_keycodes)
    IN  /\ m = {} => (Selected = 0 /\ ppc = "poll")
        /\ m # {} => MostSpecific(Selected, m)
        /\ ppc = "send" =>
              /\ m # {}
              /\ \E i \in m : MostSpecific(i, m) /\ commands[i].ty.kind = "Generate"
        /\ ppc = "cancel" =>
              /\ m # {}
              /\ \E i \in m : MostSpecific(i, m) /\ commands[i].ty.kind = "Cancel"

\* all keys held: both two-key chords match, the first configured is sent
C14_Witness ==
    /\ new_keycodes = Keycode
    /\ Selected = 1
    /\ chan = commands[1].ty.gen
    /\ last_pressed = commands[1].ty.gen


(* The prompt handed to the engine *)

\* positions of the template at which the placeholder literal starts
Occurrences(template) ==
    {p \in 1..(Len(template) - Len(Placeholder) + 1) :
        SubSeq(template, p, p + Len(Placeholder) - 1) = Placeholder}

\* what position p of the template contributes to the final prompt, given the
\* positions at which an occurrence starts: the resolved text where one
\* starts, nothing inside one, and the template's own character elsewhere
Contribution(template, occurrences, p, text) ==
    IF p \in occurrences THEN text
    ELSE IF \E q \in occurrences : q < p /\ p < q + Len(Placeholder)
         THEN <<>>
         ELSE <<template[p]>>

Substituted(template, text) ==
    LET occurrences == Occurrences(template)
    IN  Concat([p \in 1..Len(template) |->
                   Contribution(template, occurrences, p, text)])

\* C15: the prompt made for the engine when a prompt has been resolved is the
\* resolved text itself under Autocomplete, and under Prompt(template) it is
\* the template with every occurrence of {{PROMPT}} replaced by the resolved
\* text and every other character kept in place; it stays that prompt for the
\* whole streaming call.
C15_FinalPrompt ==
    [][/\ (cpc = "resolve" /\ cpc' = "infer") =>
             /\ prompt' # <<>>
             /\ command[1].mode.kind = "Autocomplete" => new_prompt' = prompt'
             /\ command[1].mode.kind = "Prompt" =>
                   new_prompt' = Substituted(command[1].mode.template, prompt')
       /\ (cpc \in {"infer", "callback"} /\ cpc' \in {"infer", "callback", "returned"}) =>
             (prompt' = prompt /\ new_prompt' = new_prompt)]_vars

C15_Witness ==
    /\ cpc = "infer"
    /\ command[1].mode.kind = "Prompt"
    /\ Cardinality(Occurrences(command[1].mode.template)) = 2
    /\ prompt = Placeholder
    /\ Len(new_prompt) = Len(command[1].mode.template)


(* What the bounded channel does to a second command *)

\* a generation has been received and has not ended
InFlight == cpc \in {"store", "resolve", "infer", "callback", "returned"}

\* C16 as stated: while one generation is in flight, a send of a second,
\* distinct Generate spec stays blocked (it completes no earlier than the
\* main thread's next receive).
C16_SecondSendBlocks ==
    [][(ppc = "send" /\ InFlight /\ SelectedGenerate # command)
           => ppc' = "send"]_vars

\* C16 as amended: the send of a Generate spec blocks exactly while the one
\* slot of the channel holds a spec that has not been received, and only a
\* receive of the main thread frees it; with the slot empty the send can
\* complete at once and puts the spec into the slot, also while a generation
\* is in flight.
C16_SendBlocksOnFullSlot ==
    [][(ppc = "send" /\ Alive) =>
           /\ chan # <<>> => ppc' = "send"
           /\ (chan # <<>> /\ chan' = <<>>) => (cpc = "recv" /\ cpc' = "store")
           /\ ppc' = "poll" => (chan = <<>> /\ chan' = SelectedGenerate)]_vars

C16_Witness ==
    /\ cpc = "infer"
    /\ Len(chan) = 1
    /\ chan # command
    /\ ppc = "send"
    /\ SelectedGenerate # chan
    /\ SelectedGenerate # command

(* Debounce of a dispatched command *)

\* C17: a command that has been sent is not sent again before is_generating
\* has been stored false, whatever is pressed in between.
C17_NoRedispatch ==
    [][(ppc = "send" /\ ppc' = "poll") => Selected \notin dispatched]_vars


(* The input thread inside a blocked send *)

\* C18: while the input thread is inside a send on the occupied slot it
\* processes no tick: the key snapshot and last_pressed stay as they are,
\* cancel_immediately is not set, and the thread leaves the send only once
\* the main thread has emptied the slot.
C18_BlockedSendTicksNothing ==
    [][(ppc = "send" /\ chan # <<>>) =>
           /\ ppc' = "send"
           /\ new_keycodes' = new_keycodes
           /\ last_pressed' = last_pressed
           /\ hold_sent' = hold_sent
           /\ cancel_immediately' => cancel_immediately]_vars

C18_Witness ==
    /\ ppc = "send"
    /\ Len(chan) = 1
    /\ cpc = "returned"
    /\ outcome = "normal"
    /\ stream # <<>>
    /\ ~cancel_immediately

(* A tick that selects Cancel *)

SelectsCancel(keycodes) ==
    /\ FirstCommand(keycodes) # <<>>
    /\ commands[Head(FirstCommand(keycodes))].ty.kind = "Cancel"

\* C19: a tick that selects Cancel goes to the store of cancel_immediately
\* and nowhere else; the store can always be taken, with the slot empty or
\* occupied and with or without a generation in flight, and it sets
\* cancel_immediately without touching the channel or last_pressed.
C19_CancelStoresDirectly ==
    [][/\ (ppc = "poll" /\ ppc' # "poll" /\ SelectsCancel(new_keycodes'))
            => (ppc' = "cancel" /\ chan' = chan)
       /\ (ppc = "cancel" /\ Alive) => ENABLED PollerCancel
       /\ (ppc = "cancel" /\ ppc' # "cancel")
            => /\ ppc' = "poll"
               /\ cancel_immediately'
               /\ chan' = chan
               /\ last_pressed' = last_pressed]_vars

C19_Witness ==
    /\ ppc = "poll"
    /\ SelectsCancel(new_keycodes)
    /\ cancel_immediately
    /\ Len(chan) = 1
    /\ cpc = "infer"


(* Stop inside a chunk *)

\* the injector calls made by the step just taken
NewCalls == SubSeq(enigo', Len(enigo) + 1, Len(enigo'))

\* C20: under Stop, an invocation of the callback on a chunk types only the
\* lines before the first one that needs the newline action (the first line
\* if it is not empty, nothing otherwise), and requests the halt exactly when
\* some line needs the action.
C20_StopTypesNoHaltingLine ==
    [][(cpc = "callback" /\ cpc' # "callback" /\ Newline = "Stop"
            /\ tok.kind = "InferredToken") =>
           LET lines == Lines(tok.text)
               halts == lines # <<>> /\ (Head(lines) = <<>> \/ Len(lines) > 1)
           IN  /\ TypedText(NewCalls) = IF lines = <<>> THEN <<>> ELSE Head(lines)
               /\ halts <=> cpc' = "returned"]_vars


(* Line boundaries of a generation *)

\* the keystrokes a sequence of injector calls sends: one per character of a
\* typed text, one per key call
RECURSIVE Keystrokes(_)
Keystrokes(calls) ==
    IF calls = <<>> THEN <<>>
    ELSE (IF Head(calls).op = "key_sequence"
          THEN [i \in 1..Len(Head(calls).arg) |-> <<"type", Head(calls).arg[i]>>]
          ELSE <<<<Head(calls).op, Head(calls).arg[1]>>>>)
         \o Keystrokes(Tail(calls))

\* the calls that type a list of lines with the newline action at every
\* boundary: none before the first line, the action before every later one
RECURSIVE BoundaryCalls(_, _, _)
BoundaryCalls(lines, newline, atStart) ==
    IF lines = <<>> THEN <<>>
    ELSE (IF atStart THEN <<>> ELSE NewlineCalls(newline))
         \o <<key_sequence(Head(lines))>>
         \o BoundaryCalls(Tail(lines), newline, FALSE)

\* C21: when a generation whose text starts with a non-empty line and does
\* not end in a newline has ended normally under Enter or ShiftEnter, the
\* injector has received the lines of the whole generated text with the
\* newline action at every line boundary, also at a boundary that falls on the
\* end of a chunk, and none before the first line.
C21_ActionAtEveryBoundary ==
    ( /\ Newline \in {"Enter", "ShiftEnter"}
      /\ cpc = "returned" /\ outcome = "normal"
      /\ Generated # <<>> /\ Head(Generated) # NL
      /\ Generated[Len(Generated)] # NL )
    => Keystrokes(CallbackCalls) = Keystrokes(BoundaryCalls(Lines(Generated), Newline, TRUE))

\* a line has been handed to the injector by an earlier callback invocation of
\* the running generation
EarlierLine ==
    \E i \in 1..(Len(stream) - 1) :
        stream[i].kind = "InferredToken" /\ Lines(stream[i].text) # <<>>

C23_GeneratingIffInFlight ==
    /\ cpc \in {"resolve", "infer", "callback"} => is_generating
    /\ cpc = "recv" => ~is_generating


(* Cancellation during a chunk *)

\* C24: cancel_immediately is read only when a callback invocation starts: an
\* invocation gets past the check only with the flag clear, and from then on
\* it types every line of its chunk and leaves the flag as it is, also when
\* the flag has been set in the meantime; a set flag halts the call at the
\* next invocation.
C24_CancelOnlyBetweenChunks ==
    [][/\ (cpc = "infer" /\ cpc' = "callback") => ~cancel_immediately
       /\ (cpc = "infer" /\ Len(stream') > Len(stream) /\ cancel_immediately)
             => cpc' = "returned"
       /\ (cpc = "callback" /\ cpc' # "callback")
             => /\ cancel_immediately' = cancel_immediately
                /\ outcome' # "cancel"
                /\ (Newline # "Stop" /\ tok.kind = "InferredToken")
                      => /\ TypedText(NewCalls) = Concat(Lines(tok.text))
                         /\ cpc' = "infer"]_vars

C24_Witness ==
    /\ cpc = "infer"
    /\ cancel_immediately
    /\ Newline = "Enter"
    /\ stream = <<InferredToken(<<"a", NL, "a">>)>>
    /\ CallbackCalls = <<key_sequence(<<"a">>), key_click("Return"), key_sequence(<<"a">>)>>

(* An empty prompt *)

\* C25: the streaming call is only ever entered with a non-empty prompt; an
\* empty prompt takes the main thread straight back to the receive, with no
\* response streamed and no injector call after prompt resolution.
C25_EmptyPromptAborts ==
    /\ cpc \in {"infer", "callback", "returned"} => prompt # <<>>
    /\ outcome = "empty" => (cpc = "recv" /\ stream = <<>> /\ CallbackCalls = <<>>)

C25_Witness ==
    /\ outcome = "empty"
    /\ cpc = "recv"
    /\ Len(chan) = 1
    /\ enigo = SelectLineCalls


(* Re-arming of the debounce *)

SelectsGenerate(keycodes) ==
    /\ FirstCommand(keycodes) # <<>>
    /\ commands[Head(FirstCommand(keycodes))].ty.kind = "Generate"

\* C26: a tick that reads is_generating as false clears last_pressed before it
\* matches, so that a Generate command it selects is sent; a tick that reads
\* is_generating as true leaves last_pressed as it is.
C26_RearmOnlyWhenIdle ==
    [][(ppc = "poll" /\ poller' # poller) =>
           /\ ~is_generating =>
                 /\ last_pressed' = <<>>
                 /\ SelectsGenerate(new_keycodes') => ppc' = "send"
           /\ is_generating => last_pressed' = last_pressed]_vars

C26_Witness ==
    /\ ppc = "send"
    /\ ~is_generating
    /\ last_pressed = <<>>
    /\ cpc = "recv"
    /\ outcome = "normal"
    /\ Selected \in hold_sent

(* The ShiftEnter keys *)

\* whether Shift is down before call i of a sequence of injector calls
ShiftDownBefore(calls, i) ==
    Cardinality({j \in 1..(i - 1) : calls[j] = key_down("Shift")})
        > Cardinality({j \in 1..(i - 1) : calls[j] = key_up("Shift")})

\* C27: under ShiftEnter every newline action of a callback invocation is
\* Shift down, Return, Shift up, in that order and next to each other; no text
\* is typed with Shift down and Shift is up when the invocation returns.
C27_ShiftEnterReleasesShift ==
    [][(cpc = "callback" /\ cpc' # "callback" /\ Newline = "ShiftEnter") =>
           LET c == NewCalls
           IN  /\ \A i \in 1..Len(c) :
                     /\ c[i].op = "key_sequence" => ~ShiftDownBefore(c, i)
                     /\ c[i] = key_click("Return") =>
                           /\ 1 < i /\ i < Len(c)
                           /\ c[i - 1] = key_down("Shift")
                           /\ c[i + 1] = key_up("Shift")
                     /\ c[i] = key_down("Shift") =>
                           (i < Len(c) /\ c[i + 1] = key_click("Return"))
               /\ ~ShiftDownBefore(c, Len(c) + 1)]_vars

C27_Witness ==
    /\ cpc = "infer"
    /\ Newline = "ShiftEnter"
    /\ TypedText(CallbackCalls) # <<>>
    /\ \E i \in 1..Len(CallbackCalls) : CallbackCalls[i] = key_down("Shift")

(* A cancel nobody is there to see *)

\* C28: a set cancel_immediately is cleared by nothing but a callback
\* invocation, which then halts its streaming call without an injector call:
\* a cancel stored while the main thread is idle, resolves a prompt or has had
\* its last token stays set for the first callback invocation of a later
\* generation.
C28_CancelKeptForNextCallback ==
    [][/\ (cancel_immediately /\ ~cancel_immediately') =>
             /\ cpc = "infer" /\ Len(stream') = Len(stream) + 1
             /\ cpc' = "returned" /\ outcome' = "cancel"
             /\ enigo' = enigo
       /\ (cancel_immediately /\ cpc = "infer" /\ stream = <<>> /\ stream' # <<>>) =>
             /\ cpc' = "returned" /\ ~cancel_immediately'
             /\ CallbackCalls = <<>> /\ enigo' = enigo]_vars

C28_Witness ==
    /\ cpc = "returned"
    /\ outcome = "cancel"
    /\ Len(stream) = 1
    /\ CallbackCalls = <<>>
    /\ ~cancel_immediately
    /\ ~SelectsCancel(new_keycodes)

(* One command per tick *)

\* C29: a tick acts on the one command it selects: with the chords of the
\* default Generate and Cancel both held the tick does not go to the cancel
\* store, cancel_immediately is set only by a tick that selected Cancel, which
\* leaves the channel alone, and a spec is put on the channel only by a tick
\* that selected Generate, which leaves cancel_immediately alone.
C29_OneCommandPerTick ==
    [][/\ (is_pressed(commands[1], new_keycodes) /\ is_pressed(commands[2], new_keycodes))
            => ppc # "cancel"
       /\ (~cancel_immediately /\ cancel_immediately')
            => (ppc = "cancel" /\ SelectsCancel(new_keycodes) /\ chan' = chan)
       /\ Len(chan') > Len(chan)
            => /\ ppc = "send" /\ SelectsGenerate(new_keycodes)
               /\ cancel_immediately' = cancel_immediately]_vars

C29_Witness ==
    /\ ppc = "poll"
    /\ new_keycodes = {"LControl", "Escape"}
    /\ chan = commands[1].ty.gen
    /\ cpc = "infer"
    /\ ~cancel_immediately


(* Progress of the two threads *)

\* one response of the engine, and one callback invocation per streaming
\* call, where progress is checked
MaxTokensLive == 1
ResponsesLive == {InferredToken(<<"a">>)}

\* a step of the main thread
CoordinatorStep ==
    \/ CoordRecv
    \/ CoordStore
    \/ CoordResolve(ResolvedPrompts)
    \/ CoordResolveFail
    \/ EngineToken(ResponsesLive, MaxTokensLive)
    \/ CallbackLines
    \/ EngineEnd
    \/ EngineError
    \/ CoordFinish

NextLive ==
    \/ PollerTick
    \/ PollerSend
    \/ PollerCancel
    \/ CoordRecv
    \/ CoordStore
    \/ CoordResolve(ResolvedPrompts)
    \/ CoordResolveFail
    \/ EngineToken(ResponsesLive, MaxTokensLive)
    \/ CallbackLines
    \/ EngineEnd
    \/ EngineError
    \/ CoordFinish

\* a send returns: the steps of PollerSend, written over the Generate commands
\* instead of the selection of the tick (from ppc = "send" the two have the
\* same steps, the tick having selected a Generate command)
SendReturns ==
    /\ Alive
    /\ ppc = "send"
    /\ CanSend
    /\ ppc' = "poll"
    /\ \E i \in 1..Len(commands) :
          /\ commands[i].ty.kind = "Generate"
          /\ chan' = chan \o commands[i].ty.gen
          /\ last_pressed' = commands[i].ty.gen
          /\ hold_sent' = hold_sent \cup {i}
          /\ dispatched' = dispatched \cup {i}
    /\ UNCHANGED <<is_generating, cancel_immediately, new_keycodes, coordinator, macos, elsewhere>>

\* both threads are scheduled: the main thread takes its next step, and with
\* it every prompt resolution and streaming call returns; a send returns once
\* the slot is free
SpecLive ==
    Init /\ [][NextLive]_vars /\ WF_vars(CoordinatorStep) /\ WF_vars(SendReturns)

BlockedInSend == ppc = "send" /\ ~CanSend
BlockedInRecv == cpc = "recv" /\ ~CanRecv

\* C30: the input thread is never blocked in send while the main thread is
\* blocked in recv, and unless the main thread has ended with an error a
\* blocked send eventually returns.
C30_NoDeadlock ==
    /\ [](~(BlockedInSend /\ BlockedInRecv))
    /\ (BlockedInSend /\ Alive) ~> (ppc = "poll" \/ ~Alive)

C30_Witness ==
    /\ BlockedInSend
    /\ cpc = "recv"
    /\ is_generating
    /\ outcome = "empty"

----------------------------------------------------------------------------
(* Writers of the shared variables *)

\* a step of the input thread, and a step of the main thread
PollerStep == poller' # poller
MainStep == cpc' # cpc

\* C31: each shared variable has one writer role: the input thread never
\* writes is_generating and only ever sets cancel_immediately to true; the
\* main thread never writes last_pressed and only ever sets
\* cancel_immediately to false; a Generate dispatch leaves cancel_immediately
\* unchanged, and a Cancel dispatch leaves last_pressed and the channel
\* unchanged.
C31_SingleWriter ==
    [][/\ PollerStep => is_generating' = is_generating
       /\ PollerStep => (cancel_immediately' # cancel_immediately => cancel_immediately')
       /\ MainStep => last_pressed' = last_pressed
       /\ MainStep => (cancel_immediately' # cancel_immediately => ~cancel_immediately')
       /\ ~(PollerStep /\ MainStep)
       /\ (ppc = "send" /\ ppc' = "poll") => cancel_immediately' = cancel_immediately
       /\ (ppc = "cancel" /\ ppc' = "poll") =>
              /\ last_pressed' = last_pressed
              /\ chan' = chan]_vars

\* the input thread has dispatched a Generate and then a Cancel, the callback
\* has consumed the request, and a further Generate waits in the channel
C31_Witness ==
    /\ ~cancel_immediately
    /\ outcome = "cancel"
    /\ cpc = "returned"
    /\ is_generating
    /\ last_pressed # <<>>
    /\ chan # <<>>

----------------------------------------------------------------------------
(* Edge detection of the runner loop *)

\* the number of dispatch calls made for a hotkey on the latest tick
Called(h, cs) == Cardinality({i \in 1..Len(cs) : cs[i] = h})

\* C32: on a tick of the runner loop the dispatch function is called for a
\* registered hotkey iff the hotkey is pressed on the tick and was not pressed
\* on the previous tick, and then once; a hotkey held over consecutive ticks
\* is not dispatched again, and a further dispatch of a hotkey follows a tick
\* on which it was not pressed.  (A tick whose dispatch call fails ends the
\* loop: no call is made on it but for a hotkey that has just been pressed.)
C32_DispatchOnPress ==
    [][\A h \in hotkeys_to_listen_for :
          /\ rpc' = "loop" =>
                Called(h, dispatch_calls') =
                    IF h \in pressed' /\ h \notin pressed THEN 1 ELSE 0
          /\ Called(h, dispatch_calls') <= 1
          /\ Called(h, dispatch_calls') = 1 => (h \in pressed' /\ h \notin pressed)
          /\ (h \in pressed /\ h \in pressed') =>
                dispatch_count'[h] = dispatch_count[h]
          /\ dispatch_count'[h] > dispatch_count[h] => h \notin pressed]_vars

\* a hotkey is down for the second time and was dispatched once per press,
\* while another has been held since its only dispatch
C32_Witness ==
    /\ rpc = "loop"
    /\ pressed = {<<"Escape">>, <<"Space">>}
    /\ old_keycodes = pressed
    /\ dispatch_calls = <<>>
    /\ dispatch_count[<<"Escape">>] = 2
    /\ dispatch_count[<<"Space">>] = 1

----------------------------------------------------------------------------
(* The states of the popup *)

\* a call of update, as against a send of the hotkey thread
UpdateStep == hotkeys_rx' = <<>>

\* the update read that Escape was released or that the input lost focus
Closing == ui'.key_released_escape \/ ui'.lost_focus

\* Opened is entered only on an Open event, and First is never entered
EntersOpenedOnEvent ==
    /\ (app.state.kind # "Opened" /\ app'.state.kind = "Opened") =>
            (UpdateStep /\ hotkeys_rx # <<>>)
    /\ app'.state.kind = "First" => app.state.kind = "First"
    /\ ~UpdateStep => app' = app

\* C33 as stated: the popup enters Opened only in response to an Open event,
\* leaves First for Unopened on the first update and never returns to First,
\* and from Opened goes to Unopened exactly when Escape is released or the
\* input loses focus, otherwise staying Opened with its input text preserved
\* (up to the edit of the frame).
C33_StateMachine ==
    [][/\ EntersOpenedOnEvent
       /\ (UpdateStep /\ app.state.kind = "First") => app'.state.kind = "Unopened"
       /\ (UpdateStep /\ app.state.kind = "Opened") =>
              IF Closing THEN app'.state.kind = "Unopened"
              ELSE /\ app'.state.kind = "Opened"
                   /\ app'.state.input \in Edits(app.state.input)]_vars

\* C33, amended: the events received by an update are handled before the
\* state is advanced.  Without a received event the popup leaves First for
\* Unopened on the first update, and from Opened goes to Unopened exactly when
\* Escape is released or the input loses focus, otherwise staying Opened at
\* its position with its input text preserved.  With a received event the
\* update goes on, from First and Unopened too, as from a popup opened at the
\* position of the last event with an empty input.  Opened is entered only on
\* an event, and First is never entered.
C33_StateMachineWithEvents ==
    [][/\ EntersOpenedOnEvent
       /\ (UpdateStep /\ hotkeys_rx = <<>> /\ app.state.kind # "Opened") =>
              app'.state = Unopened
       /\ (UpdateStep /\ (hotkeys_rx # <<>> \/ app.state.kind = "Opened")) =>
              LET pos == IF hotkeys_rx # <<>>
                            THEN hotkeys_rx[Len(hotkeys_rx)].pos
                            ELSE app.state.pos
                  input == IF hotkeys_rx # <<>> THEN <<>> ELSE app.state.input
              IN  IF Closing THEN app'.state = Unopened
                  ELSE /\ app'.state.kind = "Opened"
                       /\ app'.state.pos = pos
                       /\ app'.state.input \in Edits(input)]_vars

\* the popup is open with text typed into it, and the hotkey has been pressed
\* again: an event waits for the next update
C33_Witness ==
    /\ app.state.kind = "Opened"
    /\ Len(app.state.input) = MaxInput
    /\ hotkeys_rx # <<>>
    /\ ~ui.key_released_escape
    /\ ~ui.lost_focus
    /\ frame.visible = TRUE

====
